---- MODULE Spec2Model ----
(***************************************************************************)
(* Model of pareto/case_studies/blending_problem.py: create_model (the     *)
(* network-flow formulation with its component balance) and the script     *)
(* under __main__ that solves it twice (gurobi for the flows, ipopt with   *)
(* the component balance active) and writes the result tables.             *)
(*                                                                         *)
(* Quantities are naturals.  A solve is the set of cost-minimal points of  *)
(* the active constraints over the integer grid spanned by the variables'  *)
(* bounds; the program takes any one of them, or the solver fails.         *)
(***************************************************************************)
EXTENDS Integers, Sequences, FiniteSets, TLC

VARIABLES
    df_sets,        \* input: the named collections (get_data)
    df_parameters,  \* input: the named parameter tables, partial (get_data)
    pc,             \* position of the script under __main__
    val,            \* value of every v_P, v_D, v_Q, v_S, v_COMP variable
    fixed,          \* the variables that are fixed (Var.fix)
    cmb_active,     \* model.component_material_balance is active
    toSeed,         \* v_COMP indices the seeding loop has still to visit
    status1,        \* what the first solver.solve returned
    status2,        \* what the second solver.solve returned
    p1,             \* history: the values as the first solve left them
    calls,          \* history: the solves invoked so far
    report          \* the tables written to blendin_problem_results.xlsx

vars == <<df_sets, df_parameters, pc, val, fixed, cmb_active, toSeed,
          status1, status2, p1, calls, report>>

\* ------------------------------------------------------------------ bounds
MaxQty == 1     \* largest quantity drawn for a parameter of the small networks

\* --------------------------------------------------------------- constants
Seed == 50000               \* model.v_COMP[i].value = 50000
DefaultDistance == 99999    \* p_transportdistances default

\* ------------------------------------------------------------ SET DEFINITION
s_C == df_sets.Customers
s_T == df_sets.TimePeriods          \* ordered: a sequence
s_PP == df_sets.ProductionPads
s_CP == df_sets.CompletionsPads
s_P == s_PP \cup s_CP
s_F == df_sets.FreshwaterSources
s_G == df_sets.TransportMode
s_K == df_sets.SWDSites
s_S == df_sets.StorageSites
s_N == df_sets.NetworkNodes
s_L == s_C \cup s_P \cup s_F \cup s_K \cup s_S \cup s_N

Periods == {s_T[i] : i \in 1..Len(s_T)}
T_first == s_T[1]
T_last == s_T[Len(s_T)]
T_prev(t) == s_T[(CHOOSE i \in 1..Len(s_T) : s_T[i] = t) - 1]

\* ------------------------------------------------------ PARAMETER DEFINITION
\* Param(index, default=d, initialize=table): the table's entry, else d
Param(table, i, d) == IF i \in DOMAIN table THEN table[i] ELSE d

p_topology(l, g, lt) == Param(df_parameters.Topology, <<l, g, lt>>, 0)
p_demand(l, t) == Param(df_parameters.Demand, <<l, t>>, 0)
p_disposalcost(l) == Param(df_parameters.DisposalCost, l, 0)
p_freshwater(l, t) == Param(df_parameters.FreshWaterAvailability, <<l, t>>, 0)
p_freshwatercost(l) == Param(df_parameters.FreshWaterCost, l, 0)
p_storage(l) == Param(df_parameters.StorageCapacity, l, 0)
p_init_storage(l) == Param(df_parameters.StorageInit, l, 0)
p_transportcapacity(l, g, lt) ==
    Param(df_parameters.TransportCapacity, <<l, g, lt>>, 0)
p_transportcost(l, g, lt) == Param(df_parameters.TransportCost, <<l, g, lt>>, 0)
p_transportdistances(l, g, lt) ==
    Param(df_parameters.TransportDistances, <<l, g, lt>>, DefaultDistance)
p_waterprofiles(l, t) == Param(df_parameters.WaterProfiles, <<l, t>>, 0)
p_prodcomp(l, t) == Param(df_parameters.ProdComp, <<l, t>>, 0)
p_storeageinitcomp(l) == Param(df_parameters.StorageInitComp, l, 0)

\* ------------------------------------------------------- VARIABLE DEFINITION
\* a variable is named by its component and its index
v_D(l, t) == <<"v_D", l, t>>
v_P(l, t) == <<"v_P", l, t>>
v_Q(l, g, lt, t) == <<"v_Q", l, g, lt, t>>
v_S(l, t) == <<"v_S", l, t>>
v_COMP(l, t) == <<"v_COMP", l, t>>
v_C_DISPOSAL(l, t) == <<"v_C_DISPOSAL", l, t>>
v_C_FRESHWATER(l, t) == <<"v_C_FRESHWATER", l, t>>
v_C_TRANSPORT(l, g, lt, t) == <<"v_C_TRANSPORT", l, g, lt, t>>

Keys_D == {v_D(l, t) : l \in s_L, t \in Periods}
Keys_P == {v_P(l, t) : l \in s_L, t \in Periods}
Keys_Q == {v_Q(a[1], a[2], a[3], t) : a \in s_L \X s_G \X s_L, t \in Periods}
Keys_S == {v_S(l, t) : l \in s_L, t \in Periods}
Keys_COMP == {v_COMP(l, t) : l \in s_L, t \in Periods}
\* the variables that carry a value in the state (initialize=0); the cost
\* variables v_C_* and v_Z have none and are read through their equalities
ValueKeys == Keys_D \cup Keys_P \cup Keys_Q \cup Keys_S \cup Keys_COMP

\* -------------------------------------------------- expressions, constraints
\* an expression is a set of terms c * v[1] * ... * v[n]; a constraint relates
\* two expressions; a rule that returns Constraint.Skip yields Skip
Const(c) == [c |-> c, v |-> <<>>]
Lin(c, k) == [c |-> c, v |-> <<k>>]
Bil(k1, k2) == [c |-> 1, v |-> <<k1, k2>>]
Skip == [lhs |-> {}, rel |-> "skip", rhs |-> {}]
Eq(l, r) == [lhs |-> l, rel |-> "==", rhs |-> r]
Le(l, r) == [lhs |-> l, rel |-> "<=", rhs |-> r]

\* ------------------------------------------------- MATHEMATICAL FORMULATION
\* OBJECTIVE FUNCTION (minimize)
objective_rule ==
    {Lin(1, v_C_TRANSPORT(l, g, lt, t)) :
        <<l, g, lt, t>> \in {q \in s_L \X s_G \X s_L \X Periods :
                                p_topology(q[1], q[2], q[3]) # 0}}
    \cup {Lin(1, v_C_DISPOSAL(l, t)) : l \in s_K, t \in Periods}
    \cup {Lin(1, v_C_FRESHWATER(l, t)) : l \in s_F, t \in Periods}

\* the origins and modes of the arcs into l, the modes and ends of those out
ArcsInto(l) == {a \in s_L \X s_G : p_topology(a[1], a[2], l) # 0}
ArcsOutOf(l) == {a \in s_G \X s_L : p_topology(l, a[1], a[2]) # 0}

\* OPEX: DISPOSAL COSTS
disposal_cost_rule(l, t) ==
    Eq({Lin(1, v_C_DISPOSAL(l, t))},
       {Lin(p_disposalcost(l), v_Q(a[1], a[2], l, t)) : a \in ArcsInto(l)})

\* OPEX: FRESH WATER COSTS
freshwater_cost_rule(l, t) ==
    Eq({Lin(1, v_C_FRESHWATER(l, t))}, {Lin(p_freshwatercost(l), v_P(l, t))})

\* OPEX: TRANSPORT COSTS
transport_cost_rule(l, g, lt, t) ==
    IF p_topology(l, g, lt) # 0
    THEN Eq({Lin(1, v_C_TRANSPORT(l, g, lt, t))},
            {Lin(p_transportcost(l, g, lt) * p_transportdistances(l, g, lt),
                 v_Q(l, g, lt, t))})
    ELSE Skip

\* GLOBAL MATERIAL BALANCE
material_balance_rule_wrong_carry(l, t) ==
    Eq({Lin(1, v_P(l, t))}
         \cup {Lin(1, v_Q(a[1], a[2], l, t)) : a \in ArcsInto(l)}
         \cup {Const(p_init_storage(l))},
       {Lin(1, v_D(l, t))}
         \cup {Lin(1, v_Q(l, a[1], a[2], t)) : a \in ArcsOutOf(l)}
         \cup {Lin(1, v_S(l, t))})

material_balance_rule(l, t) ==
    IF t = T_first
    THEN Eq({Lin(1, v_P(l, t))}
              \cup {Lin(1, v_Q(a[1], a[2], l, t)) : a \in ArcsInto(l)}
              \cup {Const(p_init_storage(l))},
            {Lin(1, v_D(l, t))}
              \cup {Lin(1, v_Q(l, a[1], a[2], t)) : a \in ArcsOutOf(l)}
              \cup {Lin(1, v_S(l, t))})
    ELSE Eq({Lin(1, v_P(l, t))}
              \cup {Lin(1, v_Q(a[1], a[2], l, t)) : a \in ArcsInto(l)}
              \cup {Lin(1, v_S(l, T_prev(t)))},
            {Lin(1, v_D(l, t))}
              \cup {Lin(1, v_Q(l, a[1], a[2], t)) : a \in ArcsOutOf(l)}
              \cup {Lin(1, v_S(l, t))})

\* MATERIAL BALANCE PER COMPONENT
component_material_balance_rule(l, t) ==
    IF t = T_first
    THEN Eq({Lin(p_prodcomp(l, t), v_P(l, t))}
              \cup {Bil(v_Q(a[1], a[2], l, t), v_COMP(a[1], t)) :
                      a \in ArcsInto(l)}
              \cup {Const(p_init_storage(l) * p_storeageinitcomp(l))},
            {Bil(v_D(l, t), v_COMP(l, t))}
              \cup {Bil(v_Q(l, a[1], a[2], t), v_COMP(l, t)) :
                      a \in ArcsOutOf(l)}
              \cup {Bil(v_S(l, t), v_COMP(l, t))})
    ELSE Eq({Lin(p_prodcomp(l, t), v_P(l, t))}
              \cup {Bil(v_Q(a[1], a[2], l, t), v_COMP(a[1], t)) :
                      a \in ArcsInto(l)}
              \cup {Bil(v_S(l, T_prev(t)), v_COMP(l, T_prev(t)))},
            {Bil(v_D(l, t), v_COMP(l, t))}
              \cup {Bil(v_Q(l, a[1], a[2], t), v_COMP(l, t)) :
                      a \in ArcsOutOf(l)}
              \cup {Bil(v_S(l, t), v_COMP(l, t))})

\* FRESH WATER AVAILABILITY
fresh_water_rule_equality(l, t) ==
    Eq({Lin(1, v_P(l, t))}, {Const(p_freshwater(l, t))})

fresh_water_rule(l, t) ==
    Le({Lin(1, v_P(l, t))}, {Const(p_freshwater(l, t))})

\* TRANSPORT CAPACITY
transport_capacity_rule_no_skip(l, g, lt, t) ==
    Le({Lin(1, v_Q(l, g, lt, t))}, {Const(p_transportcapacity(l, g, lt))})

transport_capacity_rule(l, g, lt, t) ==
    IF p_topology(l, g, lt) # 0
    THEN Le({Lin(1, v_Q(l, g, lt, t))}, {Const(p_transportcapacity(l, g, lt))})
    ELSE Skip

\* STORAGE CAPACITY
storage_capacity_rule_initial(l, t) ==
    Le({Lin(1, v_S(l, t))}, {Const(p_init_storage(l))})

storage_capacity_rule(l, t) ==
    Le({Lin(1, v_S(l, t))}, {Const(p_storage(l))})

\* FINAL STORAGE CONDITION
final_storage_rule(l, t) ==
    IF t = T_last
    THEN IF l \in s_P \/ l \in s_S
         THEN Eq({Lin(1, v_S(l, t))}, {Const(p_init_storage(l))})
         ELSE Skip
    ELSE Skip

\* the constraint components of the model: every rule over its index set,
\* without the rows the rule skipped
Rows(cs) == {c \in cs : c.rel # "skip"}
LT == s_L \X Periods
LGLT == s_L \X s_G \X s_L \X Periods
disposal_cost_constraint ==
    Rows({disposal_cost_rule(i[1], i[2]) : i \in s_K \X Periods})
freshwater_cost_constraint ==
    Rows({freshwater_cost_rule(i[1], i[2]) : i \in s_F \X Periods})
transport_cost_constraint ==
    Rows({transport_cost_rule(i[1], i[2], i[3], i[4]) : i \in LGLT})
material_balance == Rows({material_balance_rule(i[1], i[2]) : i \in LT})
component_material_balance ==
    Rows({component_material_balance_rule(i[1], i[2]) : i \in LT})
fresh_water_constraint ==
    Rows({fresh_water_rule(i[1], i[2]) : i \in s_F \X Periods})
transport_capacity_constraint ==
    Rows({transport_capacity_rule(i[1], i[2], i[3], i[4]) : i \in LGLT})
storage_capacity_constraint ==
    Rows({storage_capacity_rule(i[1], i[2]) : i \in LT})
final_storage_constraint ==
    Rows({final_storage_rule(i[1], i[2]) : i \in LT})

CostConstraints ==
    disposal_cost_constraint \cup freshwater_cost_constraint
      \cup transport_cost_constraint
FlowConstraints ==
    material_balance \cup fresh_water_constraint
      \cup transport_capacity_constraint \cup storage_capacity_constraint
      \cup final_storage_constraint

\* the variables an expression, a constraint, a set of constraints mention
VarsOfExpr(e) == UNION {{tm.v[i] : i \in 1..Len(tm.v)} : tm \in e}
VarsOf(cs) == UNION {VarsOfExpr(c.lhs) \cup VarsOfExpr(c.rhs) : c \in cs}

\* ------------------------------------------------------------------ solving
\* the value of a term, an expression, a constraint at the point v
TermVal(v, tm) ==
    IF Len(tm.v) = 0 THEN tm.c
    ELSE IF Len(tm.v) = 1 THEN tm.c * v[tm.v[1]]
    ELSE tm.c * v[tm.v[1]] * v[tm.v[2]]

RECURSIVE ExprVal(_, _)
ExprVal(v, e) ==
    IF e = {} THEN 0
    ELSE LET tm == CHOOSE x \in e : TRUE
         IN  TermVal(v, tm) + ExprVal(v, e \ {tm})

Holds(v, c) ==
    IF c.rel = "==" THEN ExprVal(v, c.lhs) = ExprVal(v, c.rhs)
    ELSE ExprVal(v, c.lhs) <= ExprVal(v, c.rhs)

\* the compositions the nonlinear solve may end on: a blend of the water the
\* tables describe, or the value a variable no equation determines was left at
TableValues(table) == {table[i] : i \in DOMAIN table}
CompVals ==
    TableValues(df_parameters.ProdComp)
      \cup TableValues(df_parameters.StorageInitComp) \cup {Seed}

\* the sum of the values v gives the variables keys
RECURSIVE SumOver(_, _)
SumOver(v, keys) ==
    IF keys = {} THEN 0
    ELSE LET k == CHOOSE x \in keys : TRUE
         IN  v[k] + SumOver(v, keys \ {k})

\* the most water there can be anywhere: what is stored at the start and
\* what is or may be produced
TotalWater ==
    LET held == [k \in Keys_S |->
                    IF k[3] = T_first THEN p_init_storage(k[2]) ELSE 0]
        made == [k \in Keys_P |->
                    IF k[2] \in s_F THEN p_freshwater(k[2], k[3])
                    ELSE p_waterprofiles(k[2], k[3])]
    IN  SumOver(held, Keys_S) + SumOver(made, Keys_P)

\* the values a free variable is enumerated over: a composition over
\* CompVals, a quantity from 0 to the least bound a row k <= c puts on it,
\* or to all the water there is when no row bounds it
Range(k, rows) ==
    LET caps == {(CHOOSE tm \in r.rhs : TRUE).c :
                    r \in {x \in rows : x.rel = "<=" /\ x.lhs = {Lin(1, k)}}}
    IN  IF k \in Keys_COMP THEN CompVals
        ELSE IF caps = {} THEN 0..TotalWater
        ELSE 0..(CHOOSE c \in caps : \A d \in caps : c <= d)

RECURSIVE Assignments(_, _, _)
Assignments(base, keys, range) ==
    IF keys = {} THEN {base}
    ELSE LET k == CHOOSE x \in keys : TRUE
         IN  UNION {Assignments([base EXCEPT ![k] = x], keys \ {k}, range) :
                       x \in range[k]}

\* the objective at v: every cost variable at the value its equality gives it
RECURSIVE SumRhs(_, _)
SumRhs(v, rows) ==
    IF rows = {} THEN 0
    ELSE LET r == CHOOSE x \in rows : TRUE
         IN  ExprVal(v, r.rhs) + SumRhs(v, rows \ {r})

ObjectiveRows == {r \in CostConstraints : r.lhs \subseteq objective_rule}
Objective(v, rows) == SumRhs(v, rows)

\* solver.solve(model): the cost-minimal points of the active constraints.
\* Fixed variables and variables in no active constraint keep their value.  A
\* free demand, or else a free production, has its value read off the
\* material balance of its location and period; the other free variables are
\* enumerated over their bounds.
Solutions(withComp) ==
    LET flowrows == FlowConstraints
        comprows == IF withComp THEN component_material_balance ELSE {}
        costrows == CostConstraints
        free == (VarsOf(flowrows \cup comprows \cup costrows) \cap ValueKeys)
                    \ fixed
        byBalance == (free \cap Keys_D)
                       \cup {k \in free \cap Keys_P : v_D(k[2], k[3]) \notin free}
        flowkeys == (free \ byBalance) \ Keys_COMP
        compkeys == free \cap Keys_COMP
        range == [k \in flowkeys \cup compkeys |-> Range(k, flowrows)]
        BalanceOf(k) == material_balance_rule(k[2], k[3])
        Solved(f, k) ==
            IF Lin(1, k) \in BalanceOf(k).rhs
            THEN ExprVal(f, BalanceOf(k).lhs)
                   - ExprVal(f, BalanceOf(k).rhs \ {Lin(1, k)})
            ELSE ExprVal(f, BalanceOf(k).rhs)
                   - ExprVal(f, BalanceOf(k).lhs \ {Lin(1, k)})
        Settle(f) ==
            [k \in DOMAIN f |-> IF k \in byBalance THEN Solved(f, k) ELSE f[k]]
        flows == {f \in {Settle(a) : a \in Assignments(val, flowkeys, range)} :
                    /\ \A k \in byBalance : f[k] >= 0
                    /\ \A c \in flowrows : Holds(f, c)}
        feasible == UNION {{a \in Assignments(f, compkeys, range) :
                              \A c \in comprows : Holds(a, c)} : f \in flows}
        objrows == ObjectiveRows
        costs == {Objective(f, objrows) : f \in feasible}
        best == CHOOSE m \in costs : \A c \in costs : m <= c
    IN  IF feasible = {} THEN {}
        ELSE {f \in feasible : Objective(f, objrows) = best}

\* ------------------------------------------------------------------- inputs
\* the tables get_data hands to create_model.  The small networks have a
\* supplying location x and a receiving location y, two periods and one mode;
\* roles, the arc and the quantities are drawn.
NoTable == [i \in {} |-> 0]
SetNames == {"Customers", "ProductionPads", "CompletionsPads",
             "FreshwaterSources", "SWDSites", "StorageSites", "NetworkNodes"}
RoleSets(role) == [n \in SetNames |-> {l \in DOMAIN role : role[l] = n}]
Sets(role, periods) ==
    [Customers |-> RoleSets(role).Customers,
     TimePeriods |-> periods,
     ProductionPads |-> RoleSets(role).ProductionPads,
     CompletionsPads |-> RoleSets(role).CompletionsPads,
     FreshwaterSources |-> RoleSets(role).FreshwaterSources,
     TransportMode |-> {"pipe"},
     SWDSites |-> RoleSets(role).SWDSites,
     StorageSites |-> RoleSets(role).StorageSites,
     NetworkNodes |-> RoleSets(role).NetworkNodes]

SmallSets ==
    {Sets(("x" :> rx) @@ ("y" :> ry), <<1, 2>>) :
        rx \in {"FreshwaterSources", "ProductionPads"},
        ry \in {"SWDSites", "CompletionsPads"}}

SmallParameters(sets) ==
    {[Topology |-> [a \in arcs |-> 1],
      Demand |-> [i \in {"y"} \X {1, 2} |-> q.dem],
      DisposalCost |-> [l \in sets.SWDSites |-> 1],
      FreshWaterAvailability |-> (<<"x", 1>> :> q.sup1) @@ (<<"x", 2>> :> q.sup2),
      FreshWaterCost |-> [l \in {"x"} |-> 2],
      StorageCapacity |-> [l \in {"x"} |-> q.scap],
      StorageInit |-> [l \in {"x"} |-> q.init],
      TransportCapacity |-> [a \in arcs |-> q.tcap],
      TransportCost |-> [a \in arcs |-> 1],
      TransportDistances |-> [a \in arcs |-> 1],
      WaterProfiles |-> (<<"x", 1>> :> q.sup1) @@ (<<"x", 2>> :> q.sup2),
      ProdComp |-> [i \in {"x"} \X {1, 2} |-> 1],
      StorageInitComp |-> [l \in {"x"} |-> 1]] :
        arcs \in {{}, {<<"x", "pipe", "y">>}},
        q \in [sup1 : 0..MaxQty, sup2 : 0..MaxQty, dem : 0..MaxQty,
               tcap : 0..MaxQty, scap : 0..MaxQty, init : 0..MaxQty]}

\* the scenarios of the specification, with the quantities it names
ChainSets ==
    Sets(("f" :> "FreshwaterSources") @@ ("k" :> "SWDSites"), <<1>>)
ChainParameters ==
    [Topology |-> (<<"f", "pipe", "k">> :> 1),
     Demand |-> NoTable,
     DisposalCost |-> ("k" :> 1),
     FreshWaterAvailability |-> (<<"f", 1>> :> 100),
     FreshWaterCost |-> ("f" :> 2),
     StorageCapacity |-> NoTable,
     StorageInit |-> NoTable,
     TransportCapacity |-> (<<"f", "pipe", "k">> :> 100),
     TransportCost |-> (<<"f", "pipe", "k">> :> 0),
     TransportDistances |-> (<<"f", "pipe", "k">> :> 1),
     WaterProfiles |-> NoTable,
     ProdComp |-> (<<"f", 1>> :> 1),
     StorageInitComp |-> NoTable]

RolloverSets == Sets(("s" :> "StorageSites"), <<1>>)
RolloverParameters(capacity) ==
    [Topology |-> NoTable,
     Demand |-> NoTable,
     DisposalCost |-> NoTable,
     FreshWaterAvailability |-> NoTable,
     FreshWaterCost |-> NoTable,
     StorageCapacity |-> capacity,
     StorageInit |-> ("s" :> 20),
     TransportCapacity |-> NoTable,
     TransportCost |-> NoTable,
     TransportDistances |-> NoTable,
     WaterProfiles |-> NoTable,
     ProdComp |-> NoTable,
     StorageInitComp |-> ("s" :> 1)]
RolloverCapacities == {NoTable, ("s" :> 19), ("s" :> 20), ("s" :> 25)}

StrandedSets ==
    Sets(("f" :> "FreshwaterSources") @@ ("c" :> "Customers"), <<1>>)
StrandedParameters ==
    [Topology |-> (<<"f", "pipe", "c">> :> 1),
     Demand |-> (<<"c", 1>> :> 50),
     DisposalCost |-> NoTable,
     FreshWaterAvailability |-> (<<"f", 1>> :> 100),
     FreshWaterCost |-> ("f" :> 2),
     StorageCapacity |-> NoTable,
     StorageInit |-> NoTable,
     TransportCapacity |-> (<<"f", "pipe", "c">> :> 0),
     TransportCost |-> (<<"f", "pipe", "c">> :> 1),
     TransportDistances |-> (<<"f", "pipe", "c">> :> 1),
     WaterProfiles |-> NoTable,
     ProdComp |-> (<<"f", 1>> :> 1),
     StorageInitComp |-> NoTable]

\* -------------------------------------------------------------- create_model
\* the loops that fix v_P and v_D: the indices they fix
ProductionToFix_not_disposal == {v_P(l, t) : l \in s_L \ s_K, t \in Periods}
ProductionToFix == {v_P(l, t) : l \in s_L \ s_F, t \in Periods}
DemandToFix == {v_D(l, t) : l \in s_L \ s_K, t \in Periods}

InitialValue(k) ==
    IF k \in ProductionToFix THEN p_waterprofiles(k[2], k[3])
    ELSE IF k \in DemandToFix THEN p_demand(k[2], k[3])
    ELSE 0

Init ==
    /\ \/ /\ df_sets \in SmallSets
          /\ df_parameters \in SmallParameters(df_sets)
       \/ /\ df_sets = ChainSets
          /\ df_parameters = ChainParameters
       \/ /\ df_sets = RolloverSets
          /\ df_parameters \in {RolloverParameters(c) : c \in RolloverCapacities}
       \/ /\ df_sets = StrandedSets
          /\ df_parameters = StrandedParameters
    /\ pc = "start"
    /\ val = NoTable
    /\ fixed = {}
    /\ cmb_active = FALSE
    /\ toSeed = {}
    /\ status1 = "none"
    /\ status2 = "none"
    /\ p1 = NoTable
    /\ calls = <<>>
    /\ report = "none"

\* model = create_model(df_sets, df_parameters)
CreateModel ==
    /\ pc = "start"
    /\ val' = [k \in ValueKeys |-> InitialValue(k)]
    /\ fixed' = ProductionToFix \cup DemandToFix
    /\ cmb_active' = TRUE
    /\ toSeed' = Keys_COMP
    /\ pc' = "deactivate"
    /\ UNCHANGED <<df_sets, df_parameters, status1, status2, p1, calls, report>>

\* ------------------------------------------------------------------ __main__
Invocation(solver) ==
    [solver |-> solver, cmb |-> cmb_active, fixed |-> fixed, unseeded |-> toSeed]

\* model.component_material_balance.deactivate()
Deactivate ==
    /\ pc = "deactivate"
    /\ cmb_active' = FALSE
    /\ pc' = "solve1"
    /\ UNCHANGED <<df_sets, df_parameters, val, fixed, toSeed, status1,
                   status2, p1, calls, report>>

\* results = solver.solve(model, tee=True), gurobi.  The solver loads a
\* cost-minimal point, or reports infeasibility when there is none and leaves
\* the values as they are (so does a time-out, not modelled apart), or raises.
\* The result is not read: unless the call raised, the script goes on to the
\* seeding loop.
Solve1 ==
    /\ pc = "solve1"
    /\ calls' = Append(calls, Invocation("gurobi"))
    /\ LET sols == Solutions(cmb_active)
       IN  \/ \E s \in sols :
                /\ val' = s
                /\ status1' = "ok"
                /\ pc' = "seed"
           \/ /\ sols = {}
              /\ val' = val
              /\ status1' = "infeasible"
              /\ pc' = "seed"
           \/ /\ val' = val
              /\ status1' = "error"
              /\ pc' = "aborted"
    /\ p1' = val'
    /\ UNCHANGED <<df_sets, df_parameters, fixed, cmb_active, toSeed,
                   status2, report>>

\* for i in model.v_COMP: model.v_COMP[i].value = 50000   (one iteration)
SeedOne ==
    /\ pc = "seed"
    /\ toSeed # {}
    /\ LET i == CHOOSE k \in toSeed : TRUE
       IN  /\ val' = [val EXCEPT ![i] = Seed]
           /\ toSeed' = toSeed \ {i}
    /\ UNCHANGED <<df_sets, df_parameters, pc, fixed, cmb_active, status1,
                   status2, p1, calls, report>>

Activate_before_seeding ==
    /\ pc = "seed"
    /\ cmb_active' = TRUE
    /\ pc' = "solve2"
    /\ UNCHANGED <<df_sets, df_parameters, val, fixed, toSeed, status1,
                   status2, p1, calls, report>>

\* solver = get_solver("ipopt"); model.component_material_balance.activate()
Activate ==
    /\ pc = "seed"
    /\ toSeed = {}
    /\ cmb_active' = TRUE
    /\ pc' = "solve2"
    /\ UNCHANGED <<df_sets, df_parameters, val, fixed, toSeed, status1,
                   status2, p1, calls, report>>

\* results = solver.solve(model, tee=True), ipopt, on the model as it then is:
\* it loads a point, or fails (no point, no convergence, time-out) and leaves
\* the values as they are, or raises.  The result is not read.
Solve2 ==
    /\ pc = "solve2"
    /\ calls' = Append(calls, Invocation("ipopt"))
    /\ LET sols == Solutions(cmb_active)
       IN  \/ \E s \in sols :
                /\ val' = s
                /\ status2' = "ok"
                /\ pc' = "report"
           \/ /\ sols = {}
              /\ val' = val
              /\ status2' = "infeasible"
              /\ pc' = "report"
           \/ /\ val' = val
              /\ status2' \in {"nonconverged", "timeout"}
              /\ pc' = "report"
           \/ /\ val' = val
              /\ status2' = "error"
              /\ pc' = "aborted"
    /\ UNCHANGED <<df_sets, df_parameters, fixed, cmb_active, toSeed,
                   status1, p1, report>>

\* CREATE REPORT: the five tables, written whatever the solves returned
Table(keys) == [k \in keys |-> val[k]]
Report ==
    /\ pc = "report"
    /\ report' = [Transfers |-> Table(Keys_Q),
                  Production |-> Table(Keys_P),
                  Demand |-> Table(Keys_D),
                  Storage |-> Table(Keys_S),
                  Composition |-> Table(Keys_COMP)]
    /\ pc' = "end"
    /\ UNCHANGED <<df_sets, df_parameters, val, fixed, cmb_active, toSeed,
                   status1, status2, p1, calls>>

Next ==
    \/ CreateModel
    \/ Deactivate
    \/ Solve1
    \/ SeedOne
    \/ Activate
    \/ Solve2
    \/ Report

Spec == Init /\ [][Next]_vars

\* =================================================================== claims
\* what the claims speak of, stated apart from the rules above
Connected(l, g, lt) == p_topology(l, g, lt) # 0
FlowKeys == Keys_P \cup Keys_Q \cup Keys_S \cup Keys_D
Built == pc # "start"
Reported == pc = "end"
Phase2Invoked == \E i \in 1..Len(calls) : calls[i].solver = "ipopt"

Inbound(l, t) ==
    {v_Q(lo, g, l, t) : <<lo, g>> \in {a \in s_L \X s_G : Connected(a[1], a[2], l)}}
Outbound(l, t) ==
    {v_Q(l, g, ld, t) : <<g, ld>> \in {a \in s_G \X s_L : Connected(l, a[1], a[2])}}

IsChain == df_sets = ChainSets /\ df_parameters = ChainParameters
IsStranded == df_sets = StrandedSets /\ df_parameters = StrandedParameters
IsRollover == df_sets = RolloverSets
RolloverAtDefault == IsRollover /\ df_parameters.StorageCapacity = NoTable

\* C1: if the phase-1 solve reports infeasibility, the phase-2 solve is never
\* invoked in that run (in particular for the location with demand 50 and no
\* inbound capacity).
C1_InfeasibleHalts == status1 = "infeasible" => ~Phase2Invoked

\* C2: when the phase-2 solve is invoked every v_P, v_Q, v_S and v_D variable
\* is fixed, and the flow values reported after phase 2 are those phase 1 gave.
C2_FlowsFixedForPhase2 ==
    /\ \A i \in 1..Len(calls) :
          calls[i].solver = "ipopt" => FlowKeys \subseteq calls[i].fixed
    /\ Reported =>
          /\ \A k \in Keys_Q : report.Transfers[k] = p1[k]
          /\ \A k \in Keys_P : report.Production[k] = p1[k]
          /\ \A k \in Keys_S : report.Storage[k] = p1[k]
          /\ \A k \in Keys_D : report.Demand[k] = p1[k]

\* C3: one fixed order of steps: the component balance is inactive when the
\* phase-1 solve is invoked, which is the first solve and the only one by
\* gurobi; it is active again only once phase 1 has returned and every
\* composition variable is seeded; the phase-2 solve is invoked exactly once,
\* second, with the component balance active.
C3_FixedOrder ==
    /\ pc = "solve1" => ~cmb_active
    /\ (Built /\ pc # "deactivate" /\ cmb_active) =>
          status1 # "none" /\ toSeed = {}
    /\ \A i \in 1..Len(calls) :
          /\ calls[i].solver = "gurobi" => i = 1 /\ ~calls[i].cmb
          /\ calls[i].solver = "ipopt" =>
                i = 2 /\ calls[i].cmb /\ calls[i].unseeded = {}
    /\ Len(calls) <= 2
    /\ pc \in {"report", "end"} =>
          Len(calls) = 2 /\ calls[2].solver = "ipopt"
C3_Witness == pc = "end" /\ status1 = "ok" /\ status2 = "ok" /\ Len(calls) = 2

\* C4: from the end of create_model on, production of every location that is
\* no freshwater source is fixed at its water profile and demand of every
\* location that is no disposal site is fixed at its demand parameter; only
\* freshwater production and disposal demand are free; the report shows them.
C4_KnownValuesFixed ==
    Built =>
      \A l \in s_L, t \in Periods :
        /\ l \notin s_F => v_P(l, t) \in fixed /\ val[v_P(l, t)] = p_waterprofiles(l, t)
        /\ l \in s_F => v_P(l, t) \notin fixed
        /\ l \notin s_K => v_D(l, t) \in fixed /\ val[v_D(l, t)] = p_demand(l, t)
        /\ l \in s_K => v_D(l, t) \notin fixed
        /\ Reported =>
              /\ l \notin s_F => report.Production[v_P(l, t)] = p_waterprofiles(l, t)
              /\ l \notin s_K => report.Demand[v_D(l, t)] = p_demand(l, t)
C4_Witness ==
    /\ pc = "end" /\ status1 = "ok" /\ status2 = "ok"
    /\ \E l \in s_L \ s_F : p_waterprofiles(l, T_first) > 0
    /\ \E l \in s_L \ s_K : p_demand(l, T_first) > 0

\* C5: in a successfully solved phase-1 result, for every location and
\* period, production + inbound flow + carried-in storage (the initial storage
\* in the first period, the previous period's storage otherwise) = demand +
\* outbound flow + storage.
CarriedIn(v, l, t) ==
    IF t = T_first THEN p_init_storage(l) ELSE v[v_S(l, T_prev(t))]
C5_Phase1Balance ==
    status1 = "ok" =>
      \A l \in s_L, t \in Periods :
        p1[v_P(l, t)] + SumOver(p1, Inbound(l, t)) + CarriedIn(p1, l, t)
          = p1[v_D(l, t)] + SumOver(p1, Outbound(l, t)) + p1[v_S(l, t)]
C5_Witness ==
    /\ status1 = "ok"
    /\ \E l \in s_L : p1[v_S(l, T_first)] # p_init_storage(l)
    /\ \E k \in Keys_Q : p1[k] > 0

\* C6: in a successful phase-2 result the composition mass balance holds with
\* the flows of phase 1, for every location and period.
RECURSIVE MassOver(_, _, _)
MassOver(flow, comp, keys) ==
    IF keys = {} THEN 0
    ELSE LET k == CHOOSE x \in keys : TRUE
         IN  flow[k] * comp[v_COMP(k[2], k[5])]
               + MassOver(flow, comp, keys \ {k})
CarriedMass(flow, comp, l, t) ==
    IF t = T_first THEN p_init_storage(l) * p_storeageinitcomp(l)
    ELSE flow[v_S(l, T_prev(t))] * comp[v_COMP(l, T_prev(t))]
C6_CompositionBalance ==
    (status1 = "ok" /\ status2 = "ok") =>
      \A l \in s_L, t \in Periods :
        p1[v_P(l, t)] * p_prodcomp(l, t)
          + MassOver(p1, val, Inbound(l, t)) + CarriedMass(p1, val, l, t)
          = (p1[v_D(l, t)] + SumOver(p1, Outbound(l, t)) + p1[v_S(l, t)])
              * val[v_COMP(l, t)]

\* C7: two-node chain: the cost-minimal phase-1 result has production 100 at
\* the source, demand 100 at the disposal site and objective value 300.
C7_ChainOptimum ==
    (IsChain /\ status1 = "ok") =>
      /\ p1[v_P("f", 1)] = 100
      /\ p1[v_D("k", 1)] = 100
      /\ Objective(p1, ObjectiveRows) = 300
\* C7 as amended: the cost-minimal phase-1 result of the chain has production
\* 0, demand 0 and objective value 0.
C7_ChainOptimumAmended ==
    (IsChain /\ status1 = "ok") =>
      /\ p1[v_P("f", 1)] = 0
      /\ p1[v_D("k", 1)] = 0
      /\ Objective(p1, ObjectiveRows) = 0
C7_Witness == IsChain /\ status1 = "ok" /\ pc = "seed"

\* C8: storage roll-over with the storage capacity at its default: phase 1
\* solves successfully and the storage at the end of the period is 20.
C8_Rollover ==
    (RolloverAtDefault /\ pc = "seed") =>
      status1 = "ok" /\ p1[v_S("s", 1)] = 20
\* C8 as amended: the roll-over network solves, with ending storage 20, when
\* its storage capacity is at least 20; below that, and so at the default
\* capacity 0, phase 1 is infeasible.
C8_RolloverAmended ==
    /\ (IsRollover /\ status1 = "ok") =>
          p_storage("s") >= 20 /\ p1[v_S("s", 1)] = 20
    /\ (IsRollover /\ status1 = "infeasible") => p_storage("s") < 20
C8_Witness == IsRollover /\ p_storage("s") = 20 /\ status1 = "ok" /\ pc = "end"

\* C9: if the phase-2 solve does not succeed, no composition table is
\* reported, and the seed is never a reported composition.
C9_FailedPhase2Withheld ==
    (Reported /\ status2 # "ok") =>
      /\ "Composition" \notin DOMAIN report
      /\ \A k \in Keys_COMP : report.Composition[k] # Seed

\* C10: the flow variable of an arc whose topology flag is unset occurs in no
\* material balance, composition balance, cost equality, capacity constraint
\* or objective term, and its value is 0 throughout and in the report.
C10_NoFlowOffTopology ==
    Built =>
      LET occurring == VarsOf(FlowConstraints \cup component_material_balance
                                \cup CostConstraints)
          costed == VarsOfExpr(objective_rule) \cup VarsOf(CostConstraints)
      IN  \A a \in s_L \X s_G \X s_L, t \in Periods :
            ~Connected(a[1], a[2], a[3]) =>
              /\ v_Q(a[1], a[2], a[3], t) \notin occurring
              /\ v_C_TRANSPORT(a[1], a[2], a[3], t) \notin costed
              /\ val[v_Q(a[1], a[2], a[3], t)] = 0
              /\ Reported => report.Transfers[v_Q(a[1], a[2], a[3], t)] = 0
C10_Witness ==
    /\ pc = "end" /\ status1 = "ok" /\ status2 = "ok"
    /\ \E k \in Keys_Q : Connected(k[2], k[3], k[4]) /\ report.Transfers[k] > 0
    /\ \E k \in Keys_Q : ~Connected(k[2], k[3], k[4])

====
